---------------------------- MODULE Spec2Model ----------------------------
(***************************************************************************)
(* TwichGram: the Twitch-to-Telegram clip pipeline of src/src/__main__.py. *)
(*                                                                         *)
(* Four asyncio tasks share one event loop (main, lines 374-400):          *)
(*   fetch_clips            polls the clips API and fills clips_queue;     *)
(*   process_clips_queue    dedups against the clips table and fills       *)
(*                          telegram_queue;                                *)
(*   process_telegram_queue downloads and sends each clip to every chat;   *)
(*   run_clip_server        the HTTP handlers over the same database.      *)
(* A task is suspended only at an await, so every action below is the code *)
(* between two awaits.  Outcomes of external calls (HTTP status, transport *)
(* errors, FloodWait) are inputs chosen with \E.                           *)
(*                                                                         *)
(* Spec       the pipeline of a first run: fetcher, dedup, delivery, main. *)
(* SpecServer the HTTP handlers, two at a time, over any persisted store.  *)
(* SpecPair   add_clip_to_blacklist then remove_clip_from_blacklist alone. *)
(* SpecStore  one HTTP handler interleaved with the fetch and dedup tasks. *)
(* SpecInsert add_clip_to_db applied on its own to any clips table.        *)
(* SpecReturning the pipeline when every external call returns, with weak  *)
(*            fairness of each task.                                       *)
(***************************************************************************)
EXTENDS Integers, Sequences, FiniteSets, TLC

(* ------------------------------ bounds -------------------------------- *)
\* clips the API hands out over a whole run
MaxFetched == 2
\* clips on one page of the API
MaxPage == 2
\* poll cycles of fetch_clips
MaxCycles == 2
\* direct calls of add_clip_to_db in the behaviours that exercise it alone
MaxInserts == 3

Slugs == {"a", "b"}
Titles == {"t1"}
Cursors == {"c1"}

(* --------------------------- program constants ------------------------ *)
MAX_RETRIES == 3
\* len(CONFIGS['target_chat_ids'])
NumTargets == 2
\* the value None of an (access_token, expires_in) pair
NoToken == 0

(* TwitchClip (lines 25-35): the fields the pipeline and the store read. *)
TwitchClip(slug, title) == [slug |-> slug, title |-> title]
ClipValues == {TwitchClip(s, t) : s \in Slugs, t \in Titles}

RECURSIVE SeqsUpTo(_, _)
SeqsUpTo(S, n) ==
    IF n = 0 THEN {<<>>}
    ELSE LET shorter == SeqsUpTo(S, n - 1)
         IN  shorter \cup {Append(q, x) : q \in {r \in shorter : Len(r) = n - 1}, x \in S}

VARIABLES
    proc,            \* asyncio.run(main()): "running" | "terminated"
    fpc,             \* fetch_clips: position
    bctx,            \* which call of get_twitch_bearer is running: "startup" | "renew"
    retries,         \* get_twitch_bearer: retries
    posts,           \* requests sent to the token endpoint by the running call
    sleeps,          \* RETRY_DELAY sleeps taken by the running call
    bearer_last,     \* how the token endpoint answered the last request of that call
    oauth_token,     \* fetch_clips: oauth_token[0] (NoToken for None)
    oauth_headers,   \* fetch_clips: the token inside oauth_headers
    cursor,          \* fetch_clips: cursor
    last_page,       \* fetch_clips: clips, the data of the last page of this cycle
    cycle,           \* poll cycles started so far
    fexc,            \* what ended fetch_clips: "none" | "status" | "transport" | "TypeError"
    clips_queue,     \* main: clips_queue
    rawlog,          \* every clip put on clips_queue, in order
    queue_cycles,    \* the poll cycle that put each clip of clips_queue
    dpc,             \* process_clips_queue: position
    dclip,           \* process_clips_queue: clip
    db_clips,        \* table clips: slug -> title
    db_blacklist,    \* table blacklist_clips: set of slugs
    telegram_queue,  \* main: telegram_queue
    fwdlog,          \* every clip put on telegram_queue, in order
    tpc,             \* process_telegram_queue: position
    tclip,           \* process_telegram_queue: clip
    tdest,           \* index into CONFIGS['target_chat_ids']
    is_initialized,  \* pyro_instance.is_initialized
    texc,            \* what ended process_telegram_queue
    sends,           \* send_clip_to_telegram: sends and sleeps of the current call
    download,        \* send_clip_to_telegram: how the download of the current call went
    attempts,        \* downloads started so far, per slug and target chat
    req,             \* run_clip_server: the blacklist request each handler is serving
    resp,            \* run_clip_server: the last response sent, with its request
    pair,            \* the add-then-remove client: stage, slug, blacklisted before
    guarded,         \* slugs an answered add_to_blacklist inserted, not deleted since
    ins              \* the caller of add_clip_to_db: inserts done, last clip, table before

fvars == <<fpc, bctx, retries, posts, sleeps, bearer_last, oauth_token, oauth_headers, cursor, last_page, cycle, fexc>>
qvars == <<clips_queue, rawlog, queue_cycles>>
dvars == <<dpc, dclip>>
dbvars == <<db_clips, db_blacklist>>
tqvars == <<telegram_queue, fwdlog>>
tvars == <<tpc, tclip, tdest, is_initialized, texc, sends, download, attempts>>
svars == <<req, resp, pair, guarded, ins>>
pipevars == <<proc, fvars, qvars, dvars, tqvars, tvars>>
vars == <<proc, fvars, qvars, dvars, dbvars, tqvars, tvars, svars>>

NoClip == TwitchClip("", "")

(* ------------------------------ the store ----------------------------- *)
\* check_if_clip_exists (lines 117-121): SELECT slug FROM clips WHERE slug = ?
check_if_clip_exists_always(slug, clips) == TRUE
check_if_clip_exists_nocheck(slug, clips) == FALSE
check_if_clip_exists(slug, clips) == slug \in DOMAIN clips

\* An insert that leaves the new row alone in the table.
add_clip_to_db_truncate(clip, clips) == [s \in {clip.slug} |-> clip.title]

\* An insert that stores nothing.
add_clip_to_db_skip(clip, clips) == clips

\* INSERT OR REPLACE, which add_clip_to_db does not use.
add_clip_to_db_replace(clip, clips) ==
    [s \in DOMAIN clips \cup {clip.slug} |->
        IF s = clip.slug THEN clip.title ELSE clips[s]]

\* add_clip_to_db (lines 113-115): INSERT OR IGNORE INTO clips
add_clip_to_db(clip, clips) ==
    IF clip.slug \in DOMAIN clips
    THEN clips
    ELSE [s \in DOMAIN clips \cup {clip.slug} |->
             IF s = clip.slug THEN clip.title ELSE clips[s]]

(* --------------------------- get_twitch_bearer ------------------------ *)
\* line 156: while retries < MAX_RETRIES
BearerLoopCond(r) == r < MAX_RETRIES
\* line 173: if retries < MAX_RETRIES (sleep before the next attempt)
BearerSleepCond_always(r) == TRUE
BearerSleepCond(r) == r < MAX_RETRIES

\* A token the endpoint has not handed out before.
FreshToken == (IF oauth_token > oauth_headers THEN oauth_token ELSE oauth_headers) + 1

\* get_twitch_bearer returns tok (NoToken for (None, None)) to fetch_clips:
\* lines 183-185 at start-up, lines 190-191 at a renewal.  timedelta(seconds=None)
\* raises TypeError outside every try block of fetch_clips.
BearerReturn(tok) ==
    /\ oauth_token' = tok
    /\ UNCHANGED last_page
    /\ oauth_headers' = IF bctx = "startup" THEN tok ELSE oauth_headers
    /\ IF tok = NoToken
       THEN /\ fpc' = "crashed"
            /\ fexc' = "TypeError"
            /\ UNCHANGED cursor
       ELSE /\ fexc' = fexc
            /\ IF bctx = "startup"
               THEN fpc' = "cycle_start" /\ UNCHANGED cursor
               ELSE fpc' = "page" /\ cursor' = ""

\* lines 158-170: one POST to the token endpoint.  outcome: "ok" (status 200 and
\* a body holding access_token and expires_in), "badbody" (status 200, the body
\* does not parse or lacks a key: response.json() or the subscript raises inside
\* the try), "status" (another status), "transport" (the request raises).
BearerPost(outcome) ==
    /\ proc = "running"
    /\ fpc = "bearer_post"
    /\ posts' = posts + 1
    /\ bearer_last' = outcome
    /\ UNCHANGED <<bctx, sleeps, cycle>>
    /\ IF outcome = "ok"
       THEN /\ UNCHANGED retries
            /\ BearerReturn(FreshToken)
       ELSE /\ retries' = retries + 1
            /\ IF BearerSleepCond(retries')
               THEN /\ fpc' = "bearer_sleep"
                    /\ UNCHANGED <<oauth_token, oauth_headers, cursor, last_page, fexc>>
               ELSE IF BearerLoopCond(retries')
                    THEN /\ fpc' = "bearer_post"
                         /\ UNCHANGED <<oauth_token, oauth_headers, cursor, last_page, fexc>>
                    ELSE BearerReturn(NoToken)
    /\ UNCHANGED <<proc, qvars, dvars, dbvars, tqvars, tvars, svars>>

\* line 175: await asyncio.sleep(RETRY_DELAY), then the loop test of line 156
BearerSleep ==
    /\ proc = "running"
    /\ fpc = "bearer_sleep"
    /\ sleeps' = sleeps + 1
    /\ UNCHANGED <<bctx, retries, posts, bearer_last, cycle>>
    /\ IF BearerLoopCond(retries)
       THEN /\ fpc' = "bearer_post"
            /\ UNCHANGED <<oauth_token, oauth_headers, cursor, last_page, fexc>>
       ELSE BearerReturn(NoToken)
    /\ UNCHANGED <<proc, qvars, dvars, dbvars, tqvars, tvars, svars>>

(* ------------------------------ fetch_clips --------------------------- *)
\* lines 187-193: top of the poll loop.  expired is the test
\* expiring_date < datetime.now() of line 188.
FetchCycleStart(expired) ==
    /\ proc = "running"
    /\ fpc = "cycle_start"
    /\ cycle < MaxCycles
    /\ cycle' = cycle + 1
    /\ IF expired
       THEN /\ fpc' = "bearer_post"
            /\ bctx' = "renew"
            /\ retries' = 0
            /\ posts' = 0
            /\ sleeps' = 0
            /\ bearer_last' = "none"
            /\ UNCHANGED cursor
       ELSE /\ fpc' = "page"
            /\ cursor' = ""
            /\ UNCHANGED <<bctx, retries, posts, sleeps, bearer_last>>
    /\ UNCHANGED <<oauth_token, oauth_headers, last_page, fexc>>
    /\ UNCHANGED <<proc, qvars, dvars, dbvars, tqvars, tvars, svars>>

\* lines 230-233: cursor = data.get('pagination', {}).get('cursor', "");
\* if not cursor: break
AfterPage_again(next) == "page"
AfterPage(next) == IF next = "" THEN "sleep" ELSE "page"

\* lines 216-228: for clip in clips: await clips_queue.put(TwitchClip(...)),
\* with no look at the clips table.
Enqueued_new(clips, stored) == SelectSeq(clips, LAMBDA c : c.slug \notin DOMAIN stored)
Enqueued(clips, stored) == clips

\* lines 207-233: a page request answered with status 200, clips data['data']
\* and pagination cursor next ("" when absent).
FetchPageOK(clips, next) ==
    /\ proc = "running"
    /\ fpc = "page"
    /\ Len(rawlog) + Len(clips) <= MaxFetched
    /\ last_page' = clips
    /\ IF clips = <<>>
       THEN /\ fpc' = "sleep"
            /\ UNCHANGED <<cursor, qvars>>
       ELSE /\ clips_queue' = clips_queue \o Enqueued(clips, db_clips)
            /\ rawlog' = rawlog \o Enqueued(clips, db_clips)
            /\ queue_cycles' = queue_cycles \o [i \in 1..Len(Enqueued(clips, db_clips)) |-> cycle]
            /\ cursor' = next
            /\ fpc' = AfterPage(next)
    /\ UNCHANGED <<bctx, retries, posts, sleeps, bearer_last, oauth_token, oauth_headers, cycle, fexc>>
    /\ UNCHANGED <<proc, dvars, dbvars, tqvars, tvars, svars>>

\* lines 234-239: another status ("status") or a raising request ("transport"):
\* return None, which runs the finally block (the sleep) and then leaves
\* fetch_clips.
FetchPageError(kind) ==
    /\ proc = "running"
    /\ fpc = "page"
    /\ fexc' = kind
    /\ fpc' = "sleep"
    /\ UNCHANGED <<bctx, retries, posts, sleeps, bearer_last, oauth_token, oauth_headers, cursor, last_page, cycle>>
    /\ UNCHANGED <<proc, qvars, dvars, dbvars, tqvars, tvars, svars>>

\* After the finally block: the pending return of lines 236/239 completes, or
\* the while True of line 187 goes round.
AfterSleep(exc) == IF exc = "none" THEN "cycle_start" ELSE "returned"

\* lines 240-242: finally: await asyncio.sleep(CONFIGS['clip_fetch_interval'])
FetchSleep ==
    /\ proc = "running"
    /\ fpc = "sleep"
    /\ fpc' = AfterSleep(fexc)
    /\ last_page' = <<>>
    /\ UNCHANGED <<bctx, retries, posts, sleeps, bearer_last, oauth_token, oauth_headers, cursor, cycle, fexc>>
    /\ UNCHANGED <<proc, qvars, dvars, dbvars, tqvars, tvars, svars>>

(* ----------------------------- asyncio.Queue -------------------------- *)
\* main, lines 384-385: both queues are asyncio.Queue(), first in first out.
\* put appends at the tail and get takes the head.
queue_put_front(queue, item) == <<item>> \o queue
queue_put(queue, item) == Append(queue, item)

\* Whether the elements of sub occur in seq in the same order.
RECURSIVE IsSubsequence(_, _)
IsSubsequence(sub, seq) ==
    IF sub = <<>> THEN TRUE
    ELSE IF seq = <<>> THEN FALSE
    ELSE IF Head(sub) = Head(seq)
         THEN IsSubsequence(Tail(sub), Tail(seq))
         ELSE IsSubsequence(sub, Tail(seq))

(* -------------------------- process_clips_queue ----------------------- *)
\* line 246: clip = await clips_queue.get()
DedupGet ==
    /\ proc = "running"
    /\ dpc = "get"
    /\ clips_queue # <<>>
    /\ dclip' = Head(clips_queue)
    /\ clips_queue' = Tail(clips_queue)
    /\ queue_cycles' = Tail(queue_cycles)
    /\ dpc' = "check"
    /\ UNCHANGED <<rawlog, fvars, dbvars, tqvars, tvars, proc, svars>>

\* line 248: if not await check_if_clip_exists(clip.slug, database_instance)
DedupCheck ==
    /\ proc = "running"
    /\ dpc = "check"
    /\ dpc' = IF check_if_clip_exists(dclip.slug, db_clips) THEN "get" ELSE "insert"
    /\ UNCHANGED <<dclip, fvars, qvars, dbvars, tqvars, tvars, proc, svars>>

\* line 249: await add_clip_to_db(clip, database_instance)
DedupInsert ==
    /\ proc = "running"
    /\ dpc = "insert"
    /\ db_clips' = add_clip_to_db(dclip, db_clips)
    /\ dpc' = "put"
    /\ UNCHANGED <<dclip, db_blacklist, fvars, qvars, tqvars, tvars, proc, svars>>

\* line 250: await telegram_queue.put(clip)
DedupPut ==
    /\ proc = "running"
    /\ dpc = "put"
    /\ telegram_queue' = queue_put(telegram_queue, dclip)
    /\ fwdlog' = Append(fwdlog, dclip)
    /\ dpc' = "get"
    /\ UNCHANGED <<dclip, fvars, qvars, dbvars, tvars, proc, svars>>

(* ------------------------- process_telegram_queue --------------------- *)
\* lines 298-299: the for loop over CONFIGS['target_chat_ids'] moves on to the
\* next chat, or line 296 waits for the next clip.
NextTarget ==
    IF tdest < NumTargets
    THEN tpc' = "download" /\ tdest' = tdest + 1 /\ UNCHANGED tclip
    ELSE tpc' = "get" /\ UNCHANGED <<tdest, tclip>>

\* An exception leaves send_clip_to_telegram and process_telegram_queue, which
\* has no try block: the task ends with it.
TelegramRaise(exc) ==
    /\ tpc' = "crashed"
    /\ texc' = exc
    /\ UNCHANGED <<tclip, tdest>>

\* The keyword arguments of send_video beyond chat_id, caption and video:
\* none at lines 264-268, three at lines 274-281.
PlainOptions == {}
EnrichedOptions == {"thumb", "disable_notification", "supports_streaming"}
\* value is FloodWait.value, the seconds to wait, when the outcome is "flood".
FloodValues == {1, 2}
SendEvent(opts, outcome, value) ==
    [what |-> "send", opts |-> opts, outcome |-> outcome,
     value |-> IF outcome = "flood" THEN value ELSE 0]
\* line 273: await asyncio.sleep(e.value)
SleepEvent(seconds) == [what |-> "sleep", opts |-> {}, outcome |-> "ok", value |-> seconds]

\* lines 271, 283: only FloodWait leads to the second send_video.
RetryAfter_any(outcome) == outcome # "ok"
RetryAfter(outcome) == outcome = "flood"

\* line 289: await pyro_instance.start().  It returns with the client
\* initialized or not yet, or raises.
TelegramStart(outcome) ==
    /\ proc = "running"
    /\ tpc = "start"
    /\ IF outcome = "raise"
       THEN TelegramRaise("start") /\ UNCHANGED is_initialized
       ELSE /\ tpc' = "wait"
            /\ is_initialized' = (outcome = "initialized")
            /\ UNCHANGED <<tclip, tdest, texc>>
    /\ UNCHANGED sends
    /\ UNCHANGED <<download, attempts>>
    /\ UNCHANGED <<proc, fvars, qvars, dvars, dbvars, tqvars, svars>>

\* The client finishes its handshake.
PyroInitialized ==
    /\ proc = "running"
    /\ tpc = "wait"
    /\ ~is_initialized
    /\ is_initialized' = TRUE
    /\ UNCHANGED <<tpc, tclip, tdest, texc, sends>>
    /\ UNCHANGED <<download, attempts>>
    /\ UNCHANGED <<proc, fvars, qvars, dvars, dbvars, tqvars, svars>>

\* line 291: the loop is left when not pyro_instance.is_initialized is false.
WaitOver_now(initialized) == TRUE
WaitOver(initialized) == initialized

\* lines 291-293: while not pyro_instance.is_initialized: await asyncio.sleep(1)
TelegramWait ==
    /\ proc = "running"
    /\ tpc = "wait"
    /\ WaitOver(is_initialized)
    /\ tpc' = "get"
    /\ UNCHANGED <<tclip, tdest, is_initialized, texc, sends>>
    /\ UNCHANGED <<download, attempts>>
    /\ UNCHANGED <<proc, fvars, qvars, dvars, dbvars, tqvars, svars>>

\* lines 296-298: clip = await telegram_queue.get(); first target chat
TelegramGet ==
    /\ proc = "running"
    /\ tpc = "get"
    /\ telegram_queue # <<>>
    /\ tclip' = Head(telegram_queue)
    /\ telegram_queue' = Tail(telegram_queue)
    /\ tdest' = 1
    /\ tpc' = "download"
    /\ UNCHANGED <<fwdlog, is_initialized, texc, sends>>
    /\ UNCHANGED <<download, attempts>>
    /\ UNCHANGED <<proc, fvars, qvars, dvars, dbvars, svars>>

\* line 259: if response.status == 200 leads to the send; the else of lines
\* 285-286 only logs.
AfterDownload_send(outcome) == "send"
AfterDownload(outcome) == IF outcome = "ok" THEN "send" ELSE "return"

\* lines 258-262, 285-286: async with aiohttp_session.get(clip.mp4_url).
\* outcome: "ok" (status 200), "status" (another status), "transport" (the GET
\* raises: it is outside the try of line 263).
TelegramDownload(outcome) ==
    /\ proc = "running"
    /\ tpc = "download"
    /\ IF outcome = "transport"
       THEN TelegramRaise("download")
       ELSE tpc' = AfterDownload(outcome) /\ UNCHANGED <<tclip, tdest, texc>>
    /\ download' = outcome
    /\ attempts' = [attempts EXCEPT ![<<tclip.slug, tdest>>] = @ + 1]
    /\ sends' = <<>>
    /\ UNCHANGED is_initialized
    /\ UNCHANGED <<proc, fvars, qvars, dvars, dbvars, tqvars, svars>>

\* lines 263-272, 283-284: the first send_video.  outcome: "ok", "flood"
\* (FloodWait), "error" (any other exception, logged by line 284).
TelegramSend(outcome) ==
    /\ proc = "running"
    /\ tpc = "send"
    /\ tpc' = IF RetryAfter(outcome) THEN "flood_sleep" ELSE "return"
    /\ UNCHANGED <<tclip, tdest>>
    /\ \E value \in FloodValues : sends' = Append(sends, SendEvent(PlainOptions, outcome, value))
    /\ UNCHANGED <<is_initialized, texc>>
    /\ UNCHANGED <<download, attempts>>
    /\ UNCHANGED <<proc, fvars, qvars, dvars, dbvars, tqvars, svars>>

\* line 273: await asyncio.sleep(e.value)
TelegramFloodSleep ==
    /\ proc = "running"
    /\ tpc = "flood_sleep"
    /\ tpc' = "resend"
    /\ sends' = Append(sends, SleepEvent(sends[Len(sends)].value))
    /\ UNCHANGED <<tclip, tdest, is_initialized, texc>>
    /\ UNCHANGED <<download, attempts>>
    /\ UNCHANGED <<proc, fvars, qvars, dvars, dbvars, tqvars, svars>>

\* lines 274-281: the second send_video runs inside the except FloodWait
\* handler, so the except Exception clause of line 283 does not cover it.
TelegramResend(outcome) ==
    /\ proc = "running"
    /\ tpc = "resend"
    /\ IF outcome = "ok"
       THEN tpc' = "return" /\ UNCHANGED <<tclip, tdest, texc>>
       ELSE TelegramRaise("resend")
    /\ sends' = Append(sends, SendEvent(EnrichedOptions, outcome, 0))
    /\ UNCHANGED is_initialized
    /\ UNCHANGED <<download, attempts>>
    /\ UNCHANGED <<proc, fvars, qvars, dvars, dbvars, tqvars, svars>>

\* line 258: the async with block of the download response is left (its
\* __aexit__ is awaited) and send_clip_to_telegram returns to the for loop.
TelegramReturn ==
    /\ proc = "running"
    /\ tpc = "return"
    /\ NextTarget
    /\ sends' = <<>>
    /\ download' = "none"
    /\ UNCHANGED <<is_initialized, texc, attempts>>
    /\ UNCHANGED <<proc, fvars, qvars, dvars, dbvars, tqvars, svars>>

(* --------------------------------- main ------------------------------- *)
\* line 400: await asyncio.gather(*tasks) re-raises the first exception of a
\* task; asyncio.run (line 403) then cancels the other tasks and the process
\* ends.  A task that returns leaves gather waiting for the others.
MainGatherRaises ==
    /\ proc = "running"
    /\ fpc = "crashed" \/ tpc = "crashed"
    /\ proc' = "terminated"
    /\ UNCHANGED <<fvars, qvars, dvars, dbvars, tqvars, tvars, svars>>

(* ---------------------------- run_clip_server ------------------------- *)
\* CONFIGS['webserver_secret_token'] and the values of the query parameter
\* webserver_secret_token ("absent": request.query.get returns None).
Secret == "secret"
Tokens == {Secret, "wrong", "absent"}

\* What a POST body yields at lines 333-334 / 347-348: a slug, an empty slug,
\* no slug field (data.get returns None), or an exception (no JSON, no dict).
NoSlugField == "<none>"
BadJson == "<raises>"
Bodies == Slugs \cup {"", NoSlugField, BadJson}

Handlers == {"h1", "h2"}
\* The handler that runs next to the pipeline tasks in SpecStore.
StoreHandlers == {"h1"}
Idle == [route |-> "", token |-> "", slug |-> "", pc |-> "idle"]
NoRows == {}
NoResponse ==
    [route |-> "", token |-> "", body |-> "", status |-> 0, text |-> "",
     slug |-> "", rows |-> NoRows]

\* lines 319, 332, 346: request.query.get('webserver_secret_token') == CONFIGS[...]
Authorized_anyone(token) == TRUE
Authorized(token) == token = Secret

\* lines 335, 349: if not slug -- None (no slug field) and "" are both falsy.
SlugGiven_notnone(body) == body # NoSlugField
SlugGiven(body) == body \notin {"", NoSlugField}

\* check_if_clip_is_blacklisted (lines 123-127)
check_if_clip_is_blacklisted(slug, blacklist) == slug \in blacklist

\* line 130: ... and not await check_if_clip_is_blacklisted(slug, db)
add_guard(blacklisted) == ~blacklisted
\* line 135: ... and await check_if_clip_is_blacklisted(slug, db)
remove_guard_copied(blacklisted) == ~blacklisted
remove_guard(blacklisted) == blacklisted

\* line 305: SELECT ... FROM clips WHERE slug NOT IN (SELECT slug FROM blacklist_clips)
Eligible_all(clips, blacklist) == DOMAIN clips
Eligible(clips, blacklist) == DOMAIN clips \ blacklist

\* SELECT slug, title, url FROM clips, without the WHERE clause of line 140.
get_blacklisted_clips_all(clips, blacklist) ==
    {[slug |-> x, title |-> clips[x]] : x \in DOMAIN clips}

\* get_blacklisted_clips (lines 139-141), as rows (slug, title)
get_blacklisted_clips(clips, blacklist) ==
    {[slug |-> x, title |-> clips[x]] : x \in DOMAIN clips \cap blacklist}

\* web.json_response(...): handler h answers and is free again.
Respond(h, route, token, body, status, text, slug, rows) ==
    /\ resp' = [route |-> route, token |-> token, body |-> body, status |-> status,
                text |-> text, slug |-> slug, rows |-> rows]
    /\ req' = [req EXCEPT ![h] = Idle]

\* handle_clip_request (lines 304-311); pick is the row ORDER BY RANDOM() puts first.
HandleClipRequest(h, pick) ==
    /\ proc = "running"
    /\ req[h].pc = "idle"
    /\ IF Eligible(db_clips, db_blacklist) = {}
       THEN Respond(h, "clip", "absent", "", 404, "error: No clips found", "", NoRows)
       ELSE /\ pick \in Eligible(db_clips, db_blacklist)
            /\ Respond(h, "clip", "absent", "", 200, "clip", pick, NoRows)
    /\ UNCHANGED <<dbvars, pair, guarded, ins, pipevars>>

\* get_blacklist_clips (lines 317-328)
GetBlacklistClips(h, token) ==
    /\ proc = "running"
    /\ req[h].pc = "idle"
    /\ IF Authorized(token)
       THEN Respond(h, "list", token, "", 200, "blacklisted_clips", "",
                    get_blacklisted_clips(db_clips, db_blacklist))
       ELSE Respond(h, "list", token, "", 401, "error: Unauthorized", "", NoRows)
    /\ UNCHANGED <<dbvars, pair, guarded, ins, pipevars>>

\* add_to_blacklist / remove_from_blacklist up to the first store access
\* (lines 331-335, 338-342 and 345-349, 352-356).  With a token that does not
\* match, the if of line 332/346 has no else: the handler returns None, which
\* is no response object (status 0 here; aiohttp logs it and answers 500).
BlacklistArrive(h, route, token, body) ==
    /\ proc = "running"
    /\ req[h].pc = "idle"
    /\ CASE ~Authorized(token) ->
              Respond(h, route, token, body, 0, "None", "", NoRows)
         [] Authorized(token) /\ body = BadJson ->
              Respond(h, route, token, body, 500, "error: Internal server error", "", NoRows)
         [] Authorized(token) /\ body # BadJson /\ ~SlugGiven(body) ->
              Respond(h, route, token, body, 400, "error: No slug provided", "", NoRows)
         [] OTHER ->
              /\ req' = [req EXCEPT ![h] =
                            [route |-> route, token |-> token, slug |-> body, pc |-> "exists"]]
              /\ UNCHANGED resp
    /\ UNCHANGED <<dbvars, guarded, ins>>

BlacklistRequest(h, route, token, body) ==
    /\ BlacklistArrive(h, route, token, body)
    /\ UNCHANGED <<pair, pipevars>>

Success(h) ==
    Respond(h, req[h].route, req[h].token, req[h].slug, 200, "status: success", "", NoRows)

\* lines 130, 135: if await check_if_clip_exists(slug, db) and ...
BlacklistCheckExists(h) ==
    /\ proc = "running"
    /\ req[h].pc = "exists"
    /\ IF check_if_clip_exists(req[h].slug, db_clips)
       THEN req' = [req EXCEPT ![h].pc = "blacklisted"] /\ UNCHANGED resp
       ELSE Success(h)
    /\ UNCHANGED <<dbvars, pair, guarded, ins, pipevars>>

\* lines 130, 135: ... and [not] await check_if_clip_is_blacklisted(slug, db)
BlacklistCheckBlacklisted(h) ==
    /\ proc = "running"
    /\ req[h].pc = "blacklisted"
    /\ LET b == check_if_clip_is_blacklisted(req[h].slug, db_blacklist)
           go == IF req[h].route = "add" THEN add_guard(b) ELSE remove_guard(b)
       IN  IF go
           THEN req' = [req EXCEPT ![h].pc = "write"] /\ UNCHANGED resp
           ELSE Success(h)
    /\ UNCHANGED <<dbvars, pair, guarded, ins, pipevars>>

\* line 131: INSERT INTO blacklist_clips VALUES (?)
blacklist_insert_lost(slug, blacklist) == blacklist
blacklist_insert(slug, blacklist) == blacklist \cup {slug}

\* lines 131-132: INSERT INTO blacklist_clips (slug is its PRIMARY KEY: a second
\* row raises IntegrityError, caught by line 340), lines 136-137: DELETE.
BlacklistWrite(h) ==
    /\ proc = "running"
    /\ req[h].pc = "write"
    /\ IF req[h].route = "add"
       THEN IF req[h].slug \in db_blacklist
            THEN /\ Respond(h, "add", req[h].token, req[h].slug, 500,
                            "error: Internal server error", "", NoRows)
                 /\ UNCHANGED db_blacklist
                 /\ UNCHANGED guarded
            ELSE /\ db_blacklist' = blacklist_insert(req[h].slug, db_blacklist)
                 /\ guarded' = guarded \cup {req[h].slug}
                 /\ Success(h)
       ELSE /\ db_blacklist' = db_blacklist \ {req[h].slug}
            /\ guarded' = guarded \ {req[h].slug}
            /\ Success(h)
    /\ UNCHANGED <<db_clips, pair, ins, pipevars>>

(* A client that calls add_to_blacklist for a slug, waits for the answer and  *)
(* then calls remove_from_blacklist for the same slug, with nothing else      *)
(* running: add_clip_to_blacklist followed by remove_clip_from_blacklist.     *)
PairAdd(slug) ==
    /\ pair.stage = "start"
    /\ BlacklistArrive("h1", "add", Secret, slug)
    /\ pair' = [stage |-> "add", slug |-> slug, was |-> slug \in db_blacklist]
    /\ UNCHANGED pipevars

PairRemove ==
    /\ pair.stage = "add"
    /\ BlacklistArrive("h1", "remove", Secret, pair.slug)
    /\ pair' = [pair EXCEPT !.stage = "remove"]
    /\ UNCHANGED pipevars

PairDone == pair.stage = "remove" /\ req["h1"].pc = "idle"

(* ------------------------------ behaviours ---------------------------- *)
\* lines 375-393: empty queues, every task at its first statement, no request
\* being served.
InitTasks ==
    /\ proc = "running"
    /\ fpc = "bearer_post"
    /\ bctx = "startup"
    /\ retries = 0
    /\ posts = 0
    /\ sleeps = 0
    /\ bearer_last = "none"
    /\ oauth_token = NoToken
    /\ oauth_headers = NoToken
    /\ cursor = ""
    /\ last_page = <<>>
    /\ cycle = 0
    /\ fexc = "none"
    /\ clips_queue = <<>>
    /\ rawlog = <<>>
    /\ queue_cycles = <<>>
    /\ dpc = "get"
    /\ dclip = NoClip
    /\ telegram_queue = <<>>
    /\ fwdlog = <<>>
    /\ tpc = "start"
    /\ tclip = NoClip
    /\ tdest = 0
    /\ is_initialized = FALSE
    /\ texc = "none"
    /\ sends = <<>>
    /\ download = "none"
    /\ attempts = [x \in Slugs \X (1..NumTargets) |-> 0]
    /\ req = [h \in Handlers |-> Idle]
    /\ resp = NoResponse
    /\ guarded = {}

PairOff == [stage |-> "off", slug |-> "", was |-> FALSE]
InsOff == [n |-> 0, clip |-> NoClip, had |-> FALSE, before |-> <<>>]

\* A first run: init_clips_database (lines 103-111) creates both tables empty.
Init ==
    /\ InitTasks
    /\ db_clips = <<>>
    /\ db_blacklist = {}
    /\ pair = PairOff
    /\ ins = InsOff

Pages == SeqsUpTo(ClipValues, MaxPage)

Fetcher ==
    \/ \E outcome \in {"ok", "badbody", "status", "transport"} : BearerPost(outcome)
    \/ BearerSleep
    \/ \E expired \in BOOLEAN : FetchCycleStart(expired)
    \/ \E clips \in Pages, next \in Cursors \cup {""} : FetchPageOK(clips, next)
    \/ \E kind \in {"status", "transport"} : FetchPageError(kind)
    \/ FetchSleep

Dedup == DedupGet \/ DedupCheck \/ DedupInsert \/ DedupPut

Delivery ==
    \/ \E outcome \in {"initialized", "pending", "raise"} : TelegramStart(outcome)
    \/ PyroInitialized
    \/ TelegramWait
    \/ TelegramGet
    \/ \E outcome \in {"ok", "status", "transport"} : TelegramDownload(outcome)
    \/ \E outcome \in {"ok", "flood", "error"} : TelegramSend(outcome)
    \/ TelegramFloodSleep
    \/ \E outcome \in {"ok", "flood", "error"} : TelegramResend(outcome)
    \/ TelegramReturn

Next == Fetcher \/ Dedup \/ Delivery \/ MainGatherRaises

Spec == Init /\ [][Next]_vars

\* The three stages when every external call returns a response (of any
\* status) instead of raising, and the client does become initialized.
ReturningFetcher ==
    \/ \E outcome \in {"ok", "badbody", "status"} : BearerPost(outcome)
    \/ BearerSleep
    \/ \E expired \in BOOLEAN : FetchCycleStart(expired)
    \/ \E clips \in Pages, next \in Cursors \cup {""} : FetchPageOK(clips, next)
    \/ FetchPageError("status")
    \/ FetchSleep

ReturningDelivery ==
    \/ \E outcome \in {"initialized", "pending"} : TelegramStart(outcome)
    \/ PyroInitialized
    \/ TelegramWait
    \/ TelegramGet
    \/ \E outcome \in {"ok", "status"} : TelegramDownload(outcome)
    \/ TelegramSend("ok")
    \/ TelegramReturn

ReturningNext == ReturningFetcher \/ Dedup \/ ReturningDelivery \/ MainGatherRaises

\* The event loop runs every task that can run (asyncio schedules ready
\* tasks first in, first out).
SpecReturning ==
    /\ Init
    /\ [][ReturningNext]_vars
    /\ WF_vars(ReturningFetcher)
    /\ WF_vars(Dedup)
    /\ WF_vars(ReturningDelivery)
    /\ WF_vars(MainGatherRaises)

\* The tables outlive the process (database/clips.db, CREATE TABLE IF NOT
\* EXISTS): a later run starts with what earlier runs stored, any clips and
\* any blacklist of them.
Stores ==
    {st \in [clips : UNION {[S -> Titles] : S \in SUBSET Slugs}, blacklist : SUBSET Slugs] :
        st.blacklist \subseteq DOMAIN st.clips}

InitServer ==
    /\ InitTasks
    /\ \E st \in Stores : db_clips = st.clips /\ db_blacklist = st.blacklist
    /\ pair = PairOff
    /\ ins = InsOff

Server ==
    \/ \E h \in Handlers, pick \in Slugs : HandleClipRequest(h, pick)
    \/ \E h \in Handlers, token \in Tokens : GetBlacklistClips(h, token)
    \/ \E h \in Handlers, route \in {"add", "remove"}, token \in Tokens, body \in Bodies :
           BlacklistRequest(h, route, token, body)
    \/ \E h \in Handlers : BlacklistCheckExists(h)
    \/ \E h \in Handlers : BlacklistCheckBlacklisted(h)
    \/ \E h \in Handlers : BlacklistWrite(h)

\* The HTTP handlers over a store left by earlier runs.
SpecServer == InitServer /\ [][Server]_vars

InitPair ==
    /\ InitTasks
    /\ \E st \in Stores : db_clips = st.clips /\ db_blacklist = st.blacklist
    /\ pair = [stage |-> "start", slug |-> "", was |-> FALSE]
    /\ ins = InsOff

PairNext ==
    \/ \E slug \in Slugs : PairAdd(slug)
    \/ BlacklistCheckExists("h1")
    \/ BlacklistCheckBlacklisted("h1")
    \/ BlacklistWrite("h1")
    \/ PairRemove

\* add_clip_to_blacklist followed by remove_clip_from_blacklist, alone.
SpecPair == InitPair /\ [][PairNext]_vars

\* Polling with a valid token and an answering API: what feeds the clips table.
\* Two clips of one slug can differ in their other fields (title, url, ...).
InsertTitles == Titles \cup {"t2"}
InsertClips == {TwitchClip(s, t) : s \in Slugs, t \in InsertTitles}

InitInsert ==
    /\ InitTasks
    /\ \E S \in SUBSET Slugs : \E clips \in [S -> InsertTitles] : db_clips = clips
    /\ db_blacklist = {}
    /\ pair = PairOff
    /\ ins = InsOff

\* One call of add_clip_to_db(clip, db) (lines 113-115), made on its own.
StoreInsert(clip) ==
    /\ ins.n < MaxInserts
    /\ ins' = [n |-> ins.n + 1, clip |-> clip,
               had |-> clip.slug \in DOMAIN db_clips, before |-> db_clips]
    /\ db_clips' = add_clip_to_db(clip, db_clips)
    /\ UNCHANGED <<db_blacklist, req, resp, pair, guarded, pipevars>>

InsertNext == \E clip \in InsertClips : StoreInsert(clip)

\* add_clip_to_db applied to any table and any clip.
SpecInsert == InitInsert /\ [][InsertNext]_vars

\* Polling with a valid token and an answering API: what feeds the clips table.
StoreFeed ==
    \/ BearerPost("ok")
    \/ FetchCycleStart(FALSE)
    \/ \E clips \in Pages : FetchPageOK(clips, "")
    \/ FetchSleep

\* The requests that reach the store: GET /clip and the blacklist routes with
\* the secret token and a slug.
StoreRequests ==
    \/ \E h \in StoreHandlers, pick \in Slugs : HandleClipRequest(h, pick)
    \/ \E h \in StoreHandlers, route \in {"add", "remove"}, slug \in Slugs :
           BlacklistRequest(h, route, Secret, slug)
    \/ \E h \in StoreHandlers : BlacklistCheckExists(h)
    \/ \E h \in StoreHandlers : BlacklistCheckBlacklisted(h)
    \/ \E h \in StoreHandlers : BlacklistWrite(h)

StoreNext == StoreRequests \/ StoreFeed \/ Dedup

\* The HTTP handlers interleaved with the fetch and deduplication tasks, which
\* insert into the clips table, over a store left by earlier runs.
SpecStore == InitServer /\ [][StoreNext]_vars

(* ------------------------------- claims ------------------------------- *)
Occurrences(log, slug) == Cardinality({i \in 1..Len(log) : log[i].slug = slug})

\* C1: for every slug, process_clips_queue puts a clip with that slug on the
\* delivery queue at most once over the whole run, however often fetch_clips
\* put the slug on the raw queue.
C1_ForwardedAtMostOnce == \A s \in Slugs : Occurrences(fwdlog, s) <= 1

\* C1 witness: a slug fetched twice, both copies consumed, one forwarded.
C1_Witness ==
    \E s \in Slugs :
        /\ Occurrences(rawlog, s) >= 2
        /\ Occurrences(fwdlog, s) = 1
        /\ clips_queue = <<>>
        /\ dpc = "get"

\* C2: after a non-success or raising page request the fetcher sleeps and then
\* starts a new cycle; it never ends because of such an error.
C2_FetcherSurvivesPageError ==
    fexc \in {"status", "transport"} => fpc # "returned"

\* C3: when the send is rate-limited and the enriched retry fails too, the
\* delivery stage stays running and the process does not terminate.
C3_RetryFailureAbsorbed ==
    texc = "resend" => (tpc # "crashed" /\ proc = "running")

\* get_twitch_bearer has used up its retries and returned (None, None).
BearerExhausted == retries = MAX_RETRIES /\ oauth_token = NoToken

\* C4: when get_twitch_bearer exhausts its retries (at start-up or at a
\* renewal) the fetcher does not crash and the process is not terminated.
C4_TokenFailureAbsorbed ==
    BearerExhausted => (fpc # "crashed" /\ proc = "running")

\* C5: a transport error of the video download does not terminate the
\* delivery stage or the process.
C5_DownloadErrorAbsorbed ==
    texc = "download" => (tpc # "crashed" /\ proc = "running")

InBearer == fpc \in {"bearer_post", "bearer_sleep"}

\* The parts of C6 that do not depend on the shape of the answer: at most
\* MAX_RETRIES requests; a sleep only between two requests, never after the
\* last one; after the last failed request the call is over with (None, None).
C6_Bounded ==
    /\ posts <= MAX_RETRIES
    /\ fpc = "bearer_post" => sleeps = posts
    /\ ~(fpc = "bearer_post") /\ posts > 0 => sleeps = posts - 1
    /\ retries = MAX_RETRIES => (~InBearer /\ oauth_token = NoToken)

\* C6 as stated: get_twitch_bearer returns the token as soon as a request
\* answers with success status (whatever its body).
C6_Original ==
    /\ C6_Bounded
    /\ bearer_last \in {"ok", "badbody"} => (~InBearer /\ oauth_token # NoToken)

\* C6 amended: get_twitch_bearer makes at most MAX_RETRIES requests, returns
\* the token as soon as a request answers with success status and a body that
\* holds access_token and expires_in (a success status with any other body is
\* a failed attempt), sleeps only between two requests, and after the last
\* failed request returns (None, None).
C6_BearerTerminates ==
    /\ C6_Bounded
    /\ bearer_last = "ok" => (~InBearer /\ oauth_token # NoToken)
    /\ bearer_last \in {"badbody", "status", "transport"} =>
           (InBearer \/ oauth_token = NoToken)

\* C6 witness: the call gave up after MAX_RETRIES requests and two sleeps.
C6_Witness ==
    /\ posts = MAX_RETRIES
    /\ sleeps = MAX_RETRIES - 1
    /\ retries = MAX_RETRIES
    /\ bearer_last = "badbody"
    /\ ~InBearer
    /\ oauth_token = NoToken

\* C7: a POST to /add_to_blacklist or /remove_from_blacklist whose token is
\* absent or differs from the secret is answered with status 401.
C7_WrongTokenIs401 ==
    (resp.route \in {"add", "remove"} /\ resp.token # Secret) => resp.status = 401

\* C8: a request to /add_to_blacklist, /remove_from_blacklist or
\* /get_blacklisted_clips whose token does not equal the secret leaves the
\* blacklist table and the clips table unchanged, whatever the answer.
C8_WrongTokenChangesNothing ==
    [][(resp' # resp /\ resp'.route \in {"add", "remove", "list"} /\ resp'.token # Secret)
          => (db_clips' = db_clips /\ db_blacklist' = db_blacklist)]_vars

\* C8 witness: a wrong-token /add_to_blacklist naming a known, non-blacklisted
\* slug has been answered and the slug is still not blacklisted.
C8_Witness ==
    /\ resp.route = "add"
    /\ resp.token = "wrong"
    /\ resp.body \in DOMAIN db_clips
    /\ resp.body \notin db_blacklist

\* C9 as stated: after add_clip_to_blacklist(slug) followed by
\* remove_clip_from_blacklist(slug) the slug is blacklisted iff it was before.
C9_AddRemoveRestores ==
    PairDone => ((pair.slug \in db_blacklist) <=> pair.was)

\* C9 amended: the pair restores the state of a slug that was not blacklisted
\* before the add (unknown, or known and not blacklisted); a slug that was
\* already blacklisted is not blacklisted afterwards.
C9_AddRemoveClears ==
    PairDone =>
        /\ ~pair.was => ((pair.slug \in db_blacklist) <=> pair.was)
        /\ pair.was => pair.slug \notin db_blacklist

\* C9 witness: the pair ran on a known slug that was not blacklisted.
C9_Witness ==
    /\ PairDone
    /\ pair.slug \in DOMAIN db_clips
    /\ ~pair.was
    /\ resp.route = "remove"
    /\ resp.status = 200

\* C10: GET /clip answers 200 with a slug that is in the clips table and not
\* in the blacklist table whenever such a slug exists, and 404 with an error
\* body exactly when none exists.
C10_ClipIsEligible ==
    [][(resp' # resp /\ resp'.route = "clip") =>
          IF \E x \in DOMAIN db_clips : x \notin db_blacklist
          THEN /\ resp'.status = 200
               /\ resp'.slug \in DOMAIN db_clips
               /\ resp'.slug \notin db_blacklist
          ELSE /\ resp'.status = 404
               /\ resp'.text = "error: No clips found"]_vars

\* C10 witness: GET /clip answered 200 while another clip is blacklisted.
C10_Witness ==
    /\ resp.route = "clip"
    /\ resp.status = 200
    /\ db_blacklist # {}
    /\ resp.slug \in DOMAIN db_clips \ db_blacklist

\* C11: once POST /add_to_blacklist with the secret token has inserted an
\* existing, non-blacklisted slug s and answered success, no later GET /clip
\* answers with s until a remove_from_blacklist deletes s, whatever the
\* pipeline inserts into the clips table meanwhile.
C11_BlacklistedNeverServed ==
    [][(resp' # resp /\ resp'.route = "clip" /\ resp'.status = 200)
          => resp'.slug \notin guarded]_vars

\* C11 witness: GET /clip answered 200 with a clip the deduplication task
\* inserted during this run, while another slug is blacklisted by an add
\* answered during this run.
C11_Witness ==
    /\ resp.route = "clip"
    /\ resp.status = 200
    /\ guarded # {}
    /\ \E i \in 1..Len(telegram_queue) : telegram_queue[i].slug = resp.slug

\* C12: in every reachable state of the handlers interleaved with the
\* pipeline's inserts, every slug of the blacklist table is a slug of the
\* clips table.
C12_BlacklistedAreClips == db_blacklist \subseteq DOMAIN db_clips

\* C12 witness: a slug the pipeline inserted during this run is blacklisted.
C12_Witness ==
    \E i \in 1..Len(telegram_queue) :
        /\ telegram_queue[i].slug \in db_blacklist
        /\ telegram_queue[i].slug \in guarded

\* C13: add_clip_to_db of a clip whose slug is already in the clips table
\* leaves the table as it was, the stored fields being those of the first
\* insert whatever the fields of the second clip, and every insert leaves
\* the slug with the one record the table had or the one just given.
C13_InsertWriteOnce ==
    ins.n > 0 =>
        /\ ins.had => db_clips = ins.before
        /\ ~ins.had => db_clips[ins.clip.slug] = ins.clip.title
        /\ \A s \in DOMAIN ins.before : s \in DOMAIN db_clips /\ db_clips[s] = ins.before[s]

\* C13 witness: a clip was inserted whose slug was already stored with a
\* different title, and the stored title is still the first one.
C13_Witness ==
    /\ ins.n > 0
    /\ ins.had
    /\ ins.before[ins.clip.slug] # ins.clip.title
    /\ db_clips[ins.clip.slug] = ins.before[ins.clip.slug]

\* C14: the existence check of add_clip_to_blacklist for a slug with no
\* record in the clips table ends the call with the blacklist table
\* unchanged, the handler answers status 200 "status: success", and
\* get_blacklisted_clips right after does not list the slug.
C14_UnknownSlugAddIsNoOp ==
    [][\A h \in Handlers :
          (/\ req[h].pc = "exists"
           /\ req[h].route = "add"
           /\ req[h].slug \notin DOMAIN db_clips
           /\ req'[h] # req[h])
          => /\ req'[h] = Idle
             /\ db_blacklist' = db_blacklist
             /\ resp'.route = "add"
             /\ resp'.body = req[h].slug
             /\ resp'.status = 200
             /\ resp'.text = "status: success"
             /\ \A r \in get_blacklisted_clips(db_clips', db_blacklist') :
                    r.slug # req[h].slug]_vars

\* C14 witness: an add with the secret token for a slug that is not in the
\* clips table was answered with success and the slug is not blacklisted.
C14_Witness ==
    /\ resp.route = "add"
    /\ resp.token = Secret
    /\ resp.body \in Slugs \ DOMAIN db_clips
    /\ resp.status = 200
    /\ resp.body \notin db_blacklist

\* C15: POST /add_to_blacklist or /remove_from_blacklist with the secret
\* token and a JSON body with no slug field or an empty slug is answered
\* with status 400 and the blacklist table is left unchanged.
C15_MissingSlugIs400 ==
    [][(/\ resp' # resp
        /\ resp'.route \in {"add", "remove"}
        /\ resp'.token = Secret
        /\ resp'.body \in {"", NoSlugField})
          => (resp'.status = 400 /\ db_blacklist' = db_blacklist)]_vars

\* C15 witness: a remove request with the secret token and an empty slug
\* was answered 400 while the blacklist is not empty.
C15_Witness ==
    /\ resp.route = "remove"
    /\ resp.token = Secret
    /\ resp.body = ""
    /\ resp.status = 400
    /\ db_blacklist # {}

\* C16: GET /get_blacklisted_clips with the secret token answers 200 with
\* one row for each slug of the blacklist table and no other, each with the
\* title of its clips record; with any other token or none it answers 401
\* with no row.
C16_ListIffAuthorized ==
    [][(resp' # resp /\ resp'.route = "list") =>
          IF resp'.token = Secret
          THEN /\ resp'.status = 200
               /\ {r.slug : r \in resp'.rows} = db_blacklist
               /\ \A r \in resp'.rows : r.title = db_clips[r.slug]
          ELSE /\ resp'.status = 401
               /\ resp'.rows = NoRows]_vars

\* C16 witness: the list was served with the secret token while one clip is
\* blacklisted and another is not.
C16_Witness ==
    /\ resp.route = "list"
    /\ resp.token = Secret
    /\ resp.rows # NoRows
    /\ DOMAIN db_clips \ db_blacklist # {}
    /\ {r.slug : r \in resp.rows} = db_blacklist

\* The poll cycle that enqueued clips_queue[i].
QueuedCycle(i) == queue_cycles[i]

\* C17 as stated: neither queue holds two entries, enqueued in the same fetch
\* cycle, of one slug that is not yet in the clips table.
C17_NoDuplicateQueued ==
    /\ \A i, j \in 1..Len(clips_queue) :
          (i < j /\ clips_queue[i].slug = clips_queue[j].slug
                 /\ QueuedCycle(i) = QueuedCycle(j))
             => clips_queue[i].slug \in DOMAIN db_clips
    /\ \A i, j \in 1..Len(telegram_queue) :
          (i < j /\ telegram_queue[i].slug = telegram_queue[j].slug)
             => telegram_queue[i].slug \in DOMAIN db_clips

\* C17 amended: the delivery queue never holds two entries of one slug, and
\* every entry of it is in the clips table; the raw-clip queue holds whatever
\* the API pages held, repeated slugs included, until process_clips_queue
\* drops the repeats.
C17_DeliveryQueueDistinct ==
    /\ \A i, j \in 1..Len(telegram_queue) :
          i < j => telegram_queue[i].slug # telegram_queue[j].slug
    /\ \A i \in 1..Len(telegram_queue) : telegram_queue[i].slug \in DOMAIN db_clips

\* C17 witness: a slug was enqueued twice, process_clips_queue has emptied
\* the raw-clip queue, and the delivery queue holds the slug once.
C17_Witness ==
    /\ \E i, j \in 1..Len(rawlog) : i < j /\ rawlog[i].slug = rawlog[j].slug
    /\ clips_queue = <<>>
    /\ dpc = "get"
    /\ Len(telegram_queue) = 1

\* C18: every POST /add_to_blacklist with the secret token for a known slug
\* is answered without an error, however the handlers of concurrent requests
\* for that slug interleave at the awaits of add_clip_to_blacklist.
C18_ConcurrentAddsSucceed ==
    (/\ resp.route = "add"
     /\ resp.token = Secret
     /\ resp.body \in DOMAIN db_clips)
       => resp.status = 200

\* C20: every page request is sent with the most recently acquired token.
C20_PageUsesLatestToken ==
    fpc = "page" => oauth_headers = oauth_token

\* C19: within one call of send_clip_to_telegram the first send_video has no
\* extra option; a second send_video happens only after the first raised
\* FloodWait and after a sleep of the seconds that FloodWait carried, and has
\* the thumb, disable_notification and supports_streaming options; there is
\* no third send_video, and none after another error of the first.
C19_SendProtocol ==
    /\ Len(sends) <= 3
    /\ Len(sends) >= 1 =>
          /\ sends[1].what = "send"
          /\ sends[1].opts = {}
    /\ Len(sends) >= 2 =>
          /\ sends[1].outcome = "flood"
          /\ sends[2].what = "sleep"
          /\ sends[2].value = sends[1].value
    /\ Len(sends) >= 3 =>
          /\ sends[3].what = "send"
          /\ sends[3].opts = {"thumb", "disable_notification", "supports_streaming"}
    /\ (Len(sends) = 1 /\ sends[1].outcome # "flood") => tpc \notin {"flood_sleep", "resend"}

\* C19 witness: the first send of a call raised FloodWait, the call slept
\* and the second send went through.
C19_Witness ==
    /\ Len(sends) = 3
    /\ sends[1].outcome = "flood"
    /\ sends[3].outcome = "ok"
    /\ tpc = "return"

\* Clips process_telegram_queue has taken from the delivery queue so far.
Dequeued == Len(fwdlog) - Len(telegram_queue)

\* C21: the clips put on the delivery queue are, in order, a subsequence of
\* the clips put on the raw queue; the delivery stage takes clips in the order
\* they were put on the delivery queue: what is still queued is the tail of
\* what was put, and the clip being delivered is the last one before it.
C21_OrderPreserved ==
    /\ IsSubsequence(fwdlog, rawlog)
    /\ Dequeued >= 0
    /\ telegram_queue = SubSeq(fwdlog, Dequeued + 1, Len(fwdlog))
    /\ tclip = IF Dequeued = 0 THEN NoClip ELSE fwdlog[Dequeued]

\* C21 witness: two clips were fetched, forwarded and dequeued for delivery.
C21_Witness ==
    /\ Len(rawlog) = 2
    /\ fwdlog = rawlog
    /\ telegram_queue = <<>>
    /\ tclip = fwdlog[2]
    /\ tpc = "download"

\* The target chats for which a download of the clip with this slug was started.
Visited(slug) == {d \in 1..NumTargets : attempts[<<slug, d>>] > 0}

\* C22: for a dequeued clip the delivery stage visits every configured
\* destination: when process_telegram_queue is through with a clip, or has
\* ended, every target chat has had its download for that clip.
C22_EveryDestinationVisited ==
    (tclip # NoClip /\ tpc \in {"get", "crashed"}) => Visited(tclip.slug) = 1..NumTargets

\* The sequencing part of C22: the destinations of the clip in delivery are
\* visited in configured order, one at a time, and every clip dequeued
\* earlier has had all of them.
DeliverySequenced ==
    /\ tclip # NoClip =>
          Visited(tclip.slug) = 1..(IF tpc = "download" THEN tdest - 1 ELSE tdest)
    /\ \A i \in 1..Len(fwdlog) :
          i < Dequeued => Visited(fwdlog[i].slug) = 1..NumTargets
    /\ \A i \in 1..Len(fwdlog) :
          i > Dequeued => Visited(fwdlog[i].slug) = {}

C24_NothingBeforeInitialized ==
    ~is_initialized =>
        /\ tpc \in {"start", "wait", "crashed"}
        /\ tclip = NoClip
        /\ telegram_queue = fwdlog
        /\ \A x \in DOMAIN attempts : attempts[x] = 0
        /\ sends = <<>>

\* C24 witness: the delivery stage is waiting for the client while the
\* fetcher and the dedup stage have put two clips on the delivery queue.
C24_Witness ==
    /\ tpc = "wait"
    /\ ~is_initialized
    /\ Len(telegram_queue) = 2
    /\ proc = "running"

\* C25: every clip on the delivery queue, the clip the dedup stage is about
\* to put there and the clip being delivered each have a record with their
\* slug in the clips table.
C25_QueuedClipsAreStored ==
    /\ \A i \in 1..Len(telegram_queue) : check_if_clip_exists(telegram_queue[i].slug, db_clips)
    /\ dpc = "put" => check_if_clip_exists(dclip.slug, db_clips)
    /\ tclip # NoClip => check_if_clip_exists(tclip.slug, db_clips)

\* C25 witness: one clip is being delivered, another is on the delivery
\* queue, and the clips table holds both.
C25_Witness ==
    /\ tclip # NoClip
    /\ tpc = "send"
    /\ Len(telegram_queue) = 1
    /\ telegram_queue[1].slug # tclip.slug
    /\ DOMAIN db_clips = {tclip.slug, telegram_queue[1].slug}

\* C26: no step of the fetcher, the dedup stage or an HTTP handler removes or
\* changes a record of the clips table, and the only step that adds one is
\* the insert of the dedup stage, which adds the record of the clip it holds.
C26_ClipsOnlyGrow ==
    [][/\ \A s \in DOMAIN db_clips : s \in DOMAIN db_clips' /\ db_clips'[s] = db_clips[s]
       /\ db_clips' # db_clips =>
             /\ dpc = "insert"
             /\ dpc' = "put"
             /\ DOMAIN db_clips' = DOMAIN db_clips \cup {dclip.slug}
             /\ req' = req
             /\ fpc' = fpc]_vars

\* C26 witness: the dedup stage has added a record to a table that held one,
\* and a remove_from_blacklist request has been answered with success.
C26_Witness ==
    /\ dpc = "put"
    /\ Cardinality(DOMAIN db_clips) = 2
    /\ resp.route = "remove"
    /\ resp.status = 200
    /\ db_blacklist = {}

\* C27: the first page request of a cycle carries the empty cursor; a page
\* request with a non-empty cursor follows directly on a success page of the
\* same cycle that held at least one clip and gave that cursor; after an empty
\* success page or one without cursor no further page is requested in the
\* cycle, and a new cycle starts only after the sleep.
C27_CursorProtocol ==
    [][/\ (fpc # "page" /\ fpc' = "page") => cursor' = ""
       /\ (fpc = "page" /\ fpc' = "page") =>
             /\ cursor' # cursor => Len(rawlog') > Len(rawlog)
             /\ Len(rawlog') > Len(rawlog) => cursor' # ""
             /\ cycle' = cycle
       /\ (fpc = "page" /\ fpc' # "page") => fpc' = "sleep"
       /\ (fpc = "page" /\ rawlog' = rawlog /\ fpc' # fpc) => fpc' = "sleep"
       /\ (fpc # "cycle_start" /\ fpc' = "cycle_start") =>
             (fpc = "sleep" \/ (fpc = "bearer_post" /\ bctx = "startup"))]_vars

\* C27 witness: in its second cycle the fetcher is about to request the page
\* after cursor c1, which the first page of that cycle returned with a clip.
C27_Witness ==
    /\ fpc = "page"
    /\ cursor = "c1"
    /\ cycle = 2
    /\ Len(rawlog) = 2
    /\ Len(clips_queue) >= 1
    /\ queue_cycles[Len(queue_cycles)] = 2

\* A step of fetch_clips that handled a page answered with status 200.
PageHandled ==
    /\ fpc = "page"
    /\ fexc' = fexc
    /\ <<fpc, cursor, rawlog, last_page>>' # <<fpc, cursor, rawlog, last_page>>

\* C28: a page answered with success has all its clips put on the raw queue,
\* in page order, in the step that handles it, whether or not the clips table
\* already holds their slugs; and the raw queue loses clips only at its head,
\* to the dedup stage, so what was enqueued before a failing page request of
\* the cycle stays enqueued.
C28_WholePageEnqueued ==
    [][/\ PageHandled =>
             /\ rawlog' = rawlog \o last_page'
             /\ clips_queue' = clips_queue \o last_page'
       /\ clips_queue' # clips_queue =>
             \/ /\ Len(clips_queue') > Len(clips_queue)
                /\ SubSeq(clips_queue', 1, Len(clips_queue)) = clips_queue
             \/ /\ dpc = "get"
                /\ dpc' = "check"
                /\ clips_queue' = Tail(clips_queue)
                /\ dclip' = Head(clips_queue)
       /\ fexc' # fexc => (clips_queue' = clips_queue /\ rawlog' = rawlog)]_vars

\* C28 witness: the second page request of the second cycle failed while the
\* clip of its first page, whose slug is in the clips table, is still on the
\* raw queue.
C28_Witness ==
    /\ fexc \in {"status", "transport"}
    /\ last_page # <<>>
    /\ clips_queue = last_page
    /\ queue_cycles = <<2>>
    /\ \A i \in 1..Len(clips_queue) : clips_queue[i].slug \in DOMAIN db_clips

\* C30: over a whole run at most one download of a clip's video is started
\* for each slug and each target chat, whatever became of that download and
\* of the send after it and however often later cycles fetch the slug again.
C30_OneDownloadPerSlugAndTarget ==
    \A x \in DOMAIN attempts : attempts[x] <= 1

\* C30 witness: the send of a clip to the last target chat failed, a later
\* cycle has fetched the same slug again, and the dedup stage has dropped it.
C30_Witness ==
    /\ tpc = "return"
    /\ tdest = NumTargets
    /\ Len(sends) = 1
    /\ sends[1].outcome = "error"
    /\ cycle = 2
    /\ Len(rawlog) = 2
    /\ rawlog[1].slug = tclip.slug
    /\ rawlog[2].slug = tclip.slug
    /\ clips_queue = <<>>
    /\ dpc = "get"
    /\ Len(fwdlog) = 1
    /\ \A d \in 1..NumTargets : attempts[<<tclip.slug, d>>] = 1

\* C29: no clip is left on a queue or in the hands of a stage for ever: the
\* process does not end while a clip is on the raw queue, on the delivery
\* queue or between the two.
C29_NoClipLeftBehind ==
    proc = "terminated" =>
        /\ clips_queue = <<>>
        /\ telegram_queue = <<>>
        /\ dpc = "get"

====
